---- MODULE Spec2Model ----
(***************************************************************************)
(* A model of github.com/RussellLuo/validating (v3): fields, errors and    *)
(* their rendering, custom Func validators, the leaf validators (Nonzero,  *)
(* Zero, LenString, LenSlice, RuneCount, Eq, Ne, Gt, Gte, Lt, Lte, Range,  *)
(* In, Nin, Match, Is) over int, string, []byte, slice and float64 values  *)
(* (NaN included), and the composites All, Any (LastError), Not, ZeroOr,   *)
(* Lazy, Nested, EachSlice, EachMap, Slice, Map and Schema.                *)
(*                                                                         *)
(* A validator is a tree of records.  Validate(v, field, path) is the set  *)
(* of outcomes one call v.Validate(field) may have: the Errors returned    *)
(* (nil, or an allocated list), the calls made to the validators of the    *)
(* tree in the order they were made, and whether the call panicked.  It is *)
(* a set because Go iterates a map in an unspecified order.                *)
(***************************************************************************)
EXTENDS Integers, Sequences, FiniteSets, TLC

\* Bounds of the model.
MaxDepth == 2    \* composites wrapped around a leaf, logical combinators
MaxNest == 1     \* composites wrapped around a leaf, all composites
MaxFields == 2   \* entries of a Schema, validators handed to Slice and Map
MaxPath == 3     \* schemas, slices and maps between the root and a leaf
MaxNum == 2      \* the integers 0..MaxNum are values and leaf parameters

\* ------------------------------------------------------------- errors.go
ErrUnsupported == "UNSUPPORTED"
ErrInvalid == "INVALID"
\* A kind outside the two constants of v3 (the older ErrUnrecognized); a
\* custom Func may pass any kind string to NewErrors.
ErrUnrecognized == "UNRECOGNIZED"

NewError(field, kind, message) ==
    [field |-> field, kind |-> kind, message |-> message]

\* Faulty variant of ErrorString: the field prefix is always written.
ErrorStringAlwaysField(e) == e.field \o ": " \o e.kind \o "(" \o e.message \o ")"

\* errorImpl.Error
ErrorString(e) ==
    LET s == e.kind \o "(" \o e.message \o ")"
    IN IF e.field = "" THEN s ELSE e.field \o ": " \o s

\* Errors is a Go slice: the nil slice and an allocated slice of length 0
\* are different values with the same (empty) list.
Nil == [nil |-> TRUE, list |-> <<>>]
Errors(list) == [nil |-> FALSE, list |-> list]

NewErrors(field, kind, message) == Errors(<<NewError(field, kind, message)>>)

\* fmt's %T of a value.
TypeOf(value) == value.type

NewUnsupportedErrors(validatorName, field, want) ==
    NewErrors(field.Name, ErrUnsupported,
              validatorName \o " expected " \o want \o " but got " \o TypeOf(field.Value))

NewInvalidErrors(field, msg) == NewErrors(field.Name, ErrInvalid, msg)

\* (*Errors).Append: Go's append leaves a slice (nil or not) as it is when
\* there is nothing to add.
ErrorsAppend(e, errs) ==
    IF Len(errs.list) = 0 THEN e ELSE Errors(e.list \o errs.list)

\* ---------------------------------------------------------- validating.go
\* Values carried by a field (any): a runtime type and its payload.
Val(type, num, str, elems, keys) ==
    [type |-> type, num |-> num, str |-> str, elems |-> elems, keys |-> keys]
NilValue == Val("<nil>", 0, "", <<>>, <<>>)
IntV(n) == Val("int", n, "", <<>>, <<>>)
StrV(s) == Val("string", 0, s, <<>>, <<>>)
SliceV(elems) == Val("[]int", 0, "", elems, <<>>)
MapV(keys, elems) == Val("map[string]int", 0, "", elems, keys)
\* A string is written one character per byte; num counts the bytes of it
\* that continue a UTF-8 sequence (none in StrV).  []byte likewise.
Utf8V(s, continuation) == Val("string", continuation, s, <<>>, <<>>)
BytesV(s) == Val("[]uint8", 0, s, <<>>, <<>>)
\* float64: a number, or NaN.
FloatV(n) == Val("float64", n, "", <<>>, <<>>)
\* A function value, of a type no validator is instantiated with.
FuncValue == Val("func()", 0, "", <<>>, <<>>)
NaN == Val("float64", 0, "NaN", <<>>, <<>>)
IsNaN(value) == value.type = "float64" /\ value.str = "NaN"

\* var zero T
ZeroValue(T) == IF T = "string" THEN StrV("") ELSE IntV(0)

F(name, value) == [Name |-> name, Value |-> value]

\* ------------------------------------------------------------ validators
Node(op, T, Message, validators, fields, keys, nilRet, kinds) ==
    [op |-> op, T |-> T, Message |-> Message, returnLastError |-> FALSE,
     validators |-> validators, fields |-> fields, keys |-> keys,
     nilRet |-> nilRet, kinds |-> kinds, args |-> <<>>]

\* A custom validator Func(f): f reports the given kinds on the field it is
\* handed, or returns nil, or an allocated empty Errors.
Func(nilRet, kinds, message) ==
    Node("Func", "", message, <<>>, <<>>, <<>>, nilRet, kinds)
Lazy(v) == Node("Lazy", "", "", <<v>>, <<>>, <<>>, TRUE, <<>>)
All(validators) == Node("All", "", "", validators, <<>>, <<>>, TRUE, <<>>)
AnyValidator(validators) == Node("Any", "", "", validators, <<>>, <<>>, TRUE, <<>>)
LastError(av) == [av EXCEPT !.returnLastError = TRUE]
Not(validator) == Node("Not", "", "is invalid", <<validator>>, <<>>, <<>>, TRUE, <<>>)
Nonzero(T) == Node("Nonzero", T, "is zero valued", <<>>, <<>>, <<>>, TRUE, <<>>)
Zero(T) == Node("Zero", T, "is nonzero", <<>>, <<>>, <<>>, TRUE, <<>>)
\* Faulty variant of ZeroOr: the errors of every sub-validator are returned.
ZeroOrAllErrors(T, validator) == AnyValidator(<<Zero(T), validator>>)

ZeroOr(T, validator) == LastError(AnyValidator(<<Zero(T), validator>>))

Schema(fields, validators) ==
    Node("Schema", "", "", validators, fields, <<>>, TRUE, <<>>)
Value(value, validator) == Schema(<<F("", value)>>, <<validator>>)
\* Nested[T](f), Slice[T](f), Map[T](f): f returns the given validators
\* whatever the value.
Nested(T, validator) == Node("Nested", T, "", <<validator>>, <<>>, <<>>, TRUE, <<>>)
EachMap(T, validator) == Node("EachMap", T, "", <<validator>>, <<>>, <<>>, TRUE, <<>>)
EachSlice(T, validator) == Node("EachSlice", T, "", <<validator>>, <<>>, <<>>, TRUE, <<>>)
Map(T, keys, validators) == Node("Map", T, "", validators, <<>>, keys, TRUE, <<>>)
Slice(T, validators) == Node("Slice", T, "", validators, <<>>, <<>>, TRUE, <<>>)

\* The leaf validators with parameters.  A parameter is a value; a regular
\* expression is given by the texts it matches, the predicate of Is by the
\* values it holds for.
Leaf(op, T, Message, args) ==
    [Node(op, T, Message, <<>>, <<>>, <<>>, TRUE, <<>>) EXCEPT !.args = args]
LenString(min, max) ==
    Leaf("LenString", "string", "has an invalid length", <<IntV(min), IntV(max)>>)
LenSlice(T, min, max) ==
    Leaf("LenSlice", T, "has an invalid length", <<IntV(min), IntV(max)>>)
RuneCount(min, max) ==
    Leaf("RuneCount", "string or []byte",
         "the number of runes is not between the given range", <<IntV(min), IntV(max)>>)
Eq(T, value) == Leaf("Eq", T, "does not equal the given value", <<value>>)
Ne(T, value) == Leaf("Ne", T, "equals the given value", <<value>>)
Gt(T, value) == Leaf("Gt", T, "is lower than or equal to the given value", <<value>>)
Gte(T, value) == Leaf("Gte", T, "is lower than the given value", <<value>>)
Lt(T, value) == Leaf("Lt", T, "is greater than or equal to the given value", <<value>>)
Lte(T, value) == Leaf("Lte", T, "is greater than the given value", <<value>>)
Range(T, min, max) == Leaf("Range", T, "is not between the given range", <<min, max>>)
In(T, values) == Leaf("In", T, "is not one of the given values", values)
Nin(T, values) == Leaf("Nin", T, "is one of the given values", values)
Match(re) ==
    Leaf("Match", "string or []byte", "does not match the given regular expression", re)
Is(T, f) == Leaf("Is", T, "is invalid", f)

\* Faulty variant of Msg: the empty message is set too.
MsgAlways(mv, msg) == [mv EXCEPT !.Message = msg]

\* (*MessageValidator).Msg
Msg(mv, msg) == IF msg # "" THEN [mv EXCEPT !.Message = msg] ELSE mv

IsMessageValidator(v) ==
    v.op \in {"Not", "Nonzero", "Zero", "LenString", "LenSlice", "RuneCount", "Eq", "Ne",
              "Gt", "Gte", "Lt", "Lte", "Range", "In", "Nin", "Match", "Is"}

\* -------------------------------------------------------------- outcomes
Return(errs) == [errs |-> errs, calls |-> <<>>, panic |-> FALSE]
\* A runtime panic (index out of range): nothing is returned.
Panic == [errs |-> Nil, calls |-> <<>>, panic |-> TRUE]
\* The outcomes outs, after the calls already made.
After(calls, outs) == {[o EXCEPT !.calls = calls \o o.calls] : o \in outs}
\* The outcomes outs of the call of the validator at path on field: the call
\* is recorded, with what it returned, before the calls it made.
Called(path, field, outs) ==
    { [o EXCEPT !.calls = <<[at |-> path, field |-> field,
                             errs |-> o.errs, panic |-> o.panic]>> \o o.calls]
      : o \in outs }

\* The function of a custom Func.
FuncReturn(v, field) ==
    IF v.nilRet THEN Nil
    ELSE Errors([i \in 1..Len(v.kinds) |-> NewError(field.Name, v.kinds[i], v.Message)])

NonzeroReturn(mv, field) ==
    IF TypeOf(field.Value) # mv.T THEN NewUnsupportedErrors("Nonzero", field, mv.T)
    ELSE IF field.Value = ZeroValue(mv.T) THEN NewInvalidErrors(field, mv.Message)
    ELSE Nil

ZeroReturn(mv, field) ==
    IF TypeOf(field.Value) # mv.T THEN NewUnsupportedErrors("Zero", field, mv.T)
    ELSE IF field.Value # ZeroValue(mv.T) THEN NewInvalidErrors(field, mv.Message)
    ELSE Nil

\* len(v) of a string, []byte or slice; utf8.RuneCountInString and
\* utf8.RuneCount; v < w of an ordered type (int).
len(value) ==
    IF value.type \in {"string", "[]uint8"} THEN Len(value.str) ELSE Len(value.elems)
RuneCountOf(value) == Len(value.str) - value.num
\* Go's ==, < and <= on values of one comparable or ordered type: every
\* comparison with a NaN is false.
Equal(v, w) == ~IsNaN(v) /\ ~IsNaN(w) /\ v = w
Less(v, w) == ~IsNaN(v) /\ ~IsNaN(w) /\ v.num < w.num
LessEq(v, w) == Less(v, w) \/ Equal(v, w)
Contains(values, v) == \E i \in 1..Len(values) : Equal(v, values[i])
MatchString(re, v) == \E i \in 1..Len(re) : re[i].str = v.str

\* Faulty variant of LenStringReturn: the type of the value is not checked.
LenStringReturnUnchecked(mv, field) ==
    LET l == len(field.Value)
    IN IF l < mv.args[1].num \/ l > mv.args[2].num
       THEN NewInvalidErrors(field, mv.Message)
       ELSE Nil

LenStringReturn(mv, field) ==
    IF TypeOf(field.Value) # "string" THEN NewUnsupportedErrors("LenString", field, "string")
    ELSE LET l == len(field.Value)
         IN IF l < mv.args[1].num \/ l > mv.args[2].num
            THEN NewInvalidErrors(field, mv.Message)
            ELSE Nil

LenSliceReturn(mv, field) ==
    IF TypeOf(field.Value) # mv.T THEN NewUnsupportedErrors("LenSlice", field, mv.T)
    ELSE LET l == len(field.Value)
         IN IF l < mv.args[1].num \/ l > mv.args[2].num
            THEN NewInvalidErrors(field, mv.Message)
            ELSE Nil

RuneCountReturn(mv, field) ==
    IF TypeOf(field.Value) \notin {"string", "[]uint8"}
    THEN NewUnsupportedErrors("RuneCount", field, "string or []byte")
    ELSE LET l == RuneCountOf(field.Value)
             valid == l >= mv.args[1].num /\ l <= mv.args[2].num
         IN IF ~valid THEN NewInvalidErrors(field, mv.Message) ELSE Nil

EqReturn(mv, field) ==
    IF TypeOf(field.Value) # mv.T THEN NewUnsupportedErrors("Eq", field, mv.T)
    ELSE IF ~Equal(field.Value, mv.args[1]) THEN NewInvalidErrors(field, mv.Message)
    ELSE Nil

NeReturn(mv, field) ==
    IF TypeOf(field.Value) # mv.T THEN NewUnsupportedErrors("Ne", field, mv.T)
    ELSE IF Equal(field.Value, mv.args[1]) THEN NewInvalidErrors(field, mv.Message)
    ELSE Nil

GtReturn(mv, field) ==
    IF TypeOf(field.Value) # mv.T THEN NewUnsupportedErrors("Gt", field, mv.T)
    ELSE IF LessEq(field.Value, mv.args[1]) THEN NewInvalidErrors(field, mv.Message)
    ELSE Nil

GteReturn(mv, field) ==
    IF TypeOf(field.Value) # mv.T THEN NewUnsupportedErrors("Gte", field, mv.T)
    ELSE IF Less(field.Value, mv.args[1]) THEN NewInvalidErrors(field, mv.Message)
    ELSE Nil

LtReturn(mv, field) ==
    IF TypeOf(field.Value) # mv.T THEN NewUnsupportedErrors("Lt", field, mv.T)
    ELSE IF LessEq(mv.args[1], field.Value) THEN NewInvalidErrors(field, mv.Message)
    ELSE Nil

LteReturn(mv, field) ==
    IF TypeOf(field.Value) # mv.T THEN NewUnsupportedErrors("Lte", field, mv.T)
    ELSE IF Less(mv.args[1], field.Value) THEN NewInvalidErrors(field, mv.Message)
    ELSE Nil

RangeReturn(mv, field) ==
    IF TypeOf(field.Value) # mv.T THEN NewUnsupportedErrors("Range", field, mv.T)
    ELSE IF Less(field.Value, mv.args[1]) \/ Less(mv.args[2], field.Value)
         THEN NewInvalidErrors(field, mv.Message)
    ELSE Nil

InReturn(mv, field) ==
    IF TypeOf(field.Value) # mv.T THEN NewUnsupportedErrors("In", field, mv.T)
    ELSE LET valid == Contains(mv.args, field.Value)
         IN IF ~valid THEN NewInvalidErrors(field, mv.Message) ELSE Nil

NinReturn(mv, field) ==
    IF TypeOf(field.Value) # mv.T THEN NewUnsupportedErrors("Nin", field, mv.T)
    ELSE LET valid == ~Contains(mv.args, field.Value)
         IN IF ~valid THEN NewInvalidErrors(field, mv.Message) ELSE Nil

MatchReturn(mv, field) ==
    IF TypeOf(field.Value) \notin {"string", "[]uint8"}
    THEN NewUnsupportedErrors("Match", field, "string or []byte")
    ELSE LET valid == MatchString(mv.args, field.Value)
         IN IF ~valid THEN NewInvalidErrors(field, mv.Message) ELSE Nil

IsReturn(mv, field) ==
    IF TypeOf(field.Value) # mv.T THEN NewUnsupportedErrors("Is", field, mv.T)
    ELSE IF ~Contains(mv.args, field.Value) THEN NewInvalidErrors(field, mv.Message)
    ELSE Nil

\* All: `if errs := v.Validate(field); errs != nil { return errs }`
AllReturns(errs) == errs # Nil

\* Any: `if lastErr == nil { return nil }`
AnySucceeds(lastErr) == lastErr = Nil

\* Faulty variants of AnyReturn: the mode is ignored.
AnyReturnAlwaysLast(av, errs, lastErr) == lastErr
AnyReturnAlwaysAll(av, errs, lastErr) == errs

\* Any: what is returned when no sub-validator returned nil.
AnyReturn(av, errs, lastErr) == IF av.returnLastError THEN lastErr ELSE errs

\* Faulty variants of NotReturn: the message fixed when Not was built; every error
\* of the wrapped validator retained; the first error alone deciding.
NotReturnDefaultMessage(mv, field, errs) ==
    IF Len(errs.list) = 0 THEN NewInvalidErrors(field, "is invalid")
    ELSE ErrorsAppend(Nil, Errors(SelectSeq(errs.list, LAMBDA err : err.kind = ErrUnsupported)))
NotReturnKeepsAll(mv, field, errs) ==
    IF Len(errs.list) = 0 THEN NewInvalidErrors(field, mv.Message)
    ELSE errs
NotReturnFirstDecides(mv, field, errs) ==
    IF Len(errs.list) = 0 THEN NewInvalidErrors(field, mv.Message)
    ELSE IF errs.list[1].kind = ErrUnsupported THEN Errors(<<errs.list[1]>>)
    ELSE Nil

\* Not: what is made of the wrapped validator's errors.
NotReturn(mv, field, errs) ==
    IF Len(errs.list) = 0 THEN NewInvalidErrors(field, mv.Message)
    ELSE ErrorsAppend(Nil, Errors(SelectSeq(errs.list, LAMBDA err : err.kind = ErrUnsupported)))

\* Faulty variants of Accumulate: only the first failing result is kept; the
\* newest result replaces the ones before it.
AccumulateFirst(errs, err) == IF errs # Nil THEN errs ELSE err
AccumulateLatest(errs, err) == IF err # Nil THEN err ELSE errs

\* `if err != nil { errs.Append(err...) }`
Accumulate(errs, err) == IF err # Nil THEN ErrorsAppend(errs, err) ELSE errs

\* strconv.Itoa, of a number that is not negative.
Digits == <<"0", "1", "2", "3", "4", "5", "6", "7", "8", "9">>
\* Faulty variant of Itoa: elements are counted from one.
ItoaFromOne(n) == Digits[n + 2]

RECURSIVE Itoa(_)
Itoa(n) == IF n < 10 THEN Digits[n + 1] ELSE Itoa(n \div 10) \o Digits[(n % 10) + 1]

\* The orders in which a Go map of n entries may be iterated.
Orders(n) == {o \in [1..n -> 1..n] : \A i, j \in 1..n : o[i] = o[j] => i = j}

\* v[k] of a map value: the zero value when k is not a key.
MapIndex(value, k) ==
    IF \E i \in 1..Len(value.keys) : value.keys[i] = k
    THEN value.elems[CHOOSE i \in 1..Len(value.keys) : value.keys[i] = k]
    ELSE ZeroValue("int")

\* toSchema: a validator that is a Schema is used as it is.
toSchema(value, validator) ==
    IF validator.op = "Schema" THEN validator ELSE Value(value, validator)
\* Where the validators of toSchema(value, validator) are in the tree, for
\* validator at path.
toSchemaPaths(validator, path) ==
    IF validator.op = "Schema"
    THEN [i \in 1..Len(validator.validators) |-> path \o <<i>>]
    ELSE <<path>>

\* Faulty variant of PrefixedField: the separator is always inserted.
PrefixedFieldAlwaysDot(f, prefix) == F(prefix \o "." \o f.Name, f.Value)

\* validateSchema: the field handed to the validator of schema field f.
PrefixedField(f, prefix) ==
    IF prefix # ""
    THEN F(IF f.Name # "" THEN prefix \o "." \o f.Name ELSE prefix, f.Value)
    ELSE f

RECURSIVE Validate(_, _, _)
RECURSIVE AllLoop(_, _, _, _)
RECURSIVE AnyLoop(_, _, _, _, _, _)
RECURSIVE SchemaLoop(_, _, _, _, _, _)
RECURSIVE ElementsLoop(_, _, _)

AllLoop(validators, i, field, path) ==
    IF i > Len(validators) THEN {Return(Nil)}
    ELSE UNION { IF r.panic \/ AllReturns(r.errs) THEN {r}
                 ELSE After(r.calls, AllLoop(validators, i + 1, field, path))
                 : r \in Validate(validators[i], field, path \o <<i>>) }

AnyLoop(av, i, field, path, errs, lastErr) ==
    IF i > Len(av.validators) THEN {Return(AnyReturn(av, errs, lastErr))}
    ELSE UNION { IF r.panic THEN {r}
                 ELSE IF AnySucceeds(r.errs) THEN {[r EXCEPT !.errs = Nil]}
                 ELSE After(r.calls, AnyLoop(av, i + 1, field, path,
                                             ErrorsAppend(errs, r.errs), r.errs))
                 : r \in Validate(av.validators[i], field, path \o <<i>>) }

NotValidate(mv, field, path) ==
    { IF r.panic THEN r ELSE [r EXCEPT !.errs = NotReturn(mv, field, r.errs)]
      : r \in Validate(mv.validators[1], field, path \o <<1>>) }

\* validateSchema's loop, over the schema's fields in the given order.
SchemaLoop(schema, paths, order, i, prefix, errs) ==
    IF i > Len(order) THEN {Return(errs)}
    ELSE UNION { IF r.panic THEN {r}
                 ELSE After(r.calls, SchemaLoop(schema, paths, order, i + 1, prefix,
                                                Accumulate(errs, r.errs)))
                 : r \in Validate(schema.validators[order[i]],
                                  PrefixedField(schema.fields[order[i]], prefix),
                                  paths[order[i]]) }

\* validateSchema(schema, field, prefixFunc), prefix being
\* prefixFunc(field.Name) and paths the places of the schema's validators.
validateSchema(schema, paths, prefix) ==
    UNION { SchemaLoop(schema, paths, order, 1, prefix, Nil)
            : order \in Orders(Len(schema.validators)) }

RECURSIVE ElementsLoopStopsAtFirst(_, _, _)
\* Faulty variant of ElementsLoop: the loop ends at the first element that
\* has errors.
ElementsLoopStopsAtFirst(steps, i, errs) ==
    IF i > Len(steps) \/ errs # Nil THEN {Return(errs)}
    ELSE IF steps[i].outOfRange THEN {Panic}
    ELSE UNION { IF r.panic THEN {r}
                 ELSE After(r.calls,
                            ElementsLoopStopsAtFirst(steps, i + 1, Accumulate(errs, r.errs)))
                 : r \in validateSchema(steps[i].schema, steps[i].paths, steps[i].prefix) }

\* The loop of EachMap, EachSlice, Map and Slice: one step per element, each
\* a validateSchema whose errors are appended; a step whose element is out
\* of range panics.
ElementsLoop(steps, i, errs) ==
    IF i > Len(steps) THEN {Return(errs)}
    ELSE IF steps[i].outOfRange THEN {Panic}
    ELSE UNION { IF r.panic THEN {r}
                 ELSE After(r.calls, ElementsLoop(steps, i + 1, Accumulate(errs, r.errs)))
                 : r \in validateSchema(steps[i].schema, steps[i].paths, steps[i].prefix) }

Step(value, validator, path, prefix) ==
    [schema |-> toSchema(value, validator), paths |-> toSchemaPaths(validator, path),
     prefix |-> prefix, outOfRange |-> FALSE]
OutOfRange == [schema |-> Schema(<<>>, <<>>), paths |-> <<>>, prefix |-> "", outOfRange |-> TRUE]

\* Faulty variant of NestedValidate: the type of the value is not asserted.
NestedValidateUnchecked(v, field, path) == Validate(v.validators[1], field, path \o <<1>>)

NestedValidate(v, field, path) ==
    IF TypeOf(field.Value) # v.T THEN {Return(NewUnsupportedErrors("Nested", field, v.T))}
    ELSE Validate(v.validators[1], field, path \o <<1>>)

EachMapValidate(v, field, path) ==
    IF TypeOf(field.Value) # v.T THEN {Return(NewUnsupportedErrors("EachMap", field, v.T))}
    ELSE LET value == field.Value
             n == Len(value.keys)
         IN UNION { ElementsLoop(
                        [i \in 1..n |->
                            Step(value.elems[order[i]], v.validators[1], path \o <<1>>,
                                 field.Name \o "[" \o value.keys[order[i]] \o "]")],
                        1, Nil)
                    : order \in Orders(n) }

EachSliceValidate(v, field, path) ==
    IF TypeOf(field.Value) # v.T THEN {Return(NewUnsupportedErrors("EachSlice", field, v.T))}
    ELSE LET value == field.Value
         IN ElementsLoop(
                [i \in 1..Len(value.elems) |->
                    Step(value.elems[i], v.validators[1], path \o <<1>>,
                         field.Name \o "[" \o Itoa(i - 1) \o "]")],
                1, Nil)

MapValidate(v, field, path) ==
    IF TypeOf(field.Value) # v.T THEN {Return(NewUnsupportedErrors("Map", field, v.T))}
    ELSE LET value == field.Value
             n == Len(v.validators)
         IN UNION { ElementsLoop(
                        [i \in 1..n |->
                            Step(MapIndex(value, v.keys[order[i]]), v.validators[order[i]],
                                 path \o <<order[i]>>,
                                 field.Name \o "[" \o v.keys[order[i]] \o "]")],
                        1, Nil)
                    : order \in Orders(n) }

SliceValidate(v, field, path) ==
    IF TypeOf(field.Value) # v.T THEN {Return(NewUnsupportedErrors("Slice", field, v.T))}
    ELSE LET value == field.Value
         IN ElementsLoop(
                [i \in 1..Len(v.validators) |->
                    IF i > Len(value.elems) THEN OutOfRange
                    ELSE Step(value.elems[i], v.validators[i], path \o <<i>>,
                              field.Name \o "[" \o Itoa(i - 1) \o "]")],
                1, Nil)

\* Faulty variant of SchemaValidate: the name of the field is not passed on.
SchemaValidateNoPrefix(s, field, path) ==
    validateSchema(s, [i \in 1..Len(s.validators) |-> path \o <<i>>], "")

SchemaValidate(s, field, path) ==
    validateSchema(s, [i \in 1..Len(s.validators) |-> path \o <<i>>], field.Name)

Validate(v, field, path) ==
    Called(path, field,
           CASE v.op = "Func" -> {Return(FuncReturn(v, field))}
             [] v.op = "Lazy" -> Validate(v.validators[1], field, path \o <<1>>)
             [] v.op = "Nonzero" -> {Return(NonzeroReturn(v, field))}
             [] v.op = "Zero" -> {Return(ZeroReturn(v, field))}
             [] v.op = "LenString" -> {Return(LenStringReturn(v, field))}
             [] v.op = "LenSlice" -> {Return(LenSliceReturn(v, field))}
             [] v.op = "RuneCount" -> {Return(RuneCountReturn(v, field))}
             [] v.op = "Eq" -> {Return(EqReturn(v, field))}
             [] v.op = "Ne" -> {Return(NeReturn(v, field))}
             [] v.op = "Gt" -> {Return(GtReturn(v, field))}
             [] v.op = "Gte" -> {Return(GteReturn(v, field))}
             [] v.op = "Lt" -> {Return(LtReturn(v, field))}
             [] v.op = "Lte" -> {Return(LteReturn(v, field))}
             [] v.op = "Range" -> {Return(RangeReturn(v, field))}
             [] v.op = "In" -> {Return(InReturn(v, field))}
             [] v.op = "Nin" -> {Return(NinReturn(v, field))}
             [] v.op = "Match" -> {Return(MatchReturn(v, field))}
             [] v.op = "Is" -> {Return(IsReturn(v, field))}
             [] v.op = "All" -> AllLoop(v.validators, 1, field, path)
             [] v.op = "Any" -> AnyLoop(v, 1, field, path, Nil, Nil)
             [] v.op = "Not" -> NotValidate(v, field, path)
             [] v.op = "Nested" -> NestedValidate(v, field, path)
             [] v.op = "EachMap" -> EachMapValidate(v, field, path)
             [] v.op = "EachSlice" -> EachSliceValidate(v, field, path)
             [] v.op = "Map" -> MapValidate(v, field, path)
             [] v.op = "Slice" -> SliceValidate(v, field, path)
             [] v.op = "Schema" -> SchemaValidate(v, field, path))

\* Faulty variants of KeyAfter: the name is written through the pointer; the
\* key is given the name of the field under validation.
KeyAfterWritten(f, prefix) == PrefixedField(f, prefix)
KeyAfterRenamed(f, prefix) == F(prefix, f.Value)

\* validateSchema: `f = F(name, f.Value)` assigns the loop variable, so the
\* *Field that is the key of the schema is left as it was.
KeyAfter(f, prefix) == f

RECURSIVE AfterValidate(_, _)
\* The validator v as v.Validate(field) leaves it.  Only validateSchema
\* assigns anything but a local errs, lastErr or newErrs; no Validate
\* assigns a Message, returnLastError or a validator.
AfterValidate(v, field) ==
    IF v.op = "Schema"
    THEN [v EXCEPT !.fields = [i \in DOMAIN v.fields |-> KeyAfter(v.fields[i], field.Name)],
                   !.validators =
                       [i \in DOMAIN v.validators |->
                           AfterValidate(v.validators[i],
                                         PrefixedField(v.fields[i], field.Name))]]
    ELSE v

\* ----------------------------------------------------------------- state
VARIABLES
    cur,        \* the validator built so far
    depth,      \* the composites wrapped around its innermost leaf
    validated,  \* whether cur.Validate(field) has returned since cur was built
    field,      \* the field of that call
    out,        \* the outcome of that call
    runs        \* the calls of cur.Validate in flight at once, with their locals

vars == <<cur, depth, validated, field, out, runs>>

CustomKinds ==
    {<<>>, <<ErrInvalid>>, <<ErrUnsupported>>, <<ErrUnrecognized>>,
     <<ErrInvalid, ErrUnsupported>>}
Leaves ==
    {Nonzero("int"), Func(TRUE, <<>>, "custom")}
    \cup {Func(FALSE, kinds, "custom") : kinds \in CustomKinds}
Sibling == Func(FALSE, <<ErrInvalid>>, "sibling")
Messages == {"", "is not ok"}
Fields == {F("", NilValue), F("a", IntV(0)), F("a", IntV(1)), F("a", StrV("x"))}

NotValidated ==
    /\ validated' = FALSE
    /\ field' = F("", NilValue)
    /\ out' = Return(Nil)
    /\ UNCHANGED runs

Init ==
    /\ cur \in Leaves
    /\ depth = 0
    /\ validated = FALSE
    /\ field = F("", NilValue)
    /\ out = Return(Nil)
    /\ runs = <<>>

Wrap(bound, v) ==
    /\ ~validated
    /\ depth < bound
    /\ cur' = v
    /\ depth' = depth + 1
    /\ NotValidated

MkAll(bound) ==
    \E vs \in {<<cur>>, <<cur, Sibling>>, <<Sibling, cur>>} : Wrap(bound, All(vs))

MkAny(bound) ==
    \E vs \in {<<cur>>, <<cur, Sibling>>, <<Sibling, cur>>} : Wrap(bound, AnyValidator(vs))

MkEmpty(bound) ==
    \E v \in {All(<<>>), AnyValidator(<<>>)} : Wrap(bound, v)

MkNot(bound) == Wrap(bound, Not(cur))

MkLazy(bound) == Wrap(bound, Lazy(cur))

MkZeroOr(bound) == Wrap(bound, ZeroOr("int", cur))

DoMsg ==
    /\ ~validated
    /\ IsMessageValidator(cur)
    /\ \E msg \in Messages : cur' = Msg(cur, msg)
    /\ UNCHANGED depth
    /\ NotValidated

DoLastError ==
    /\ ~validated
    /\ cur.op = "Any"
    /\ cur' = LastError(cur)
    /\ UNCHANGED depth
    /\ NotValidated

Keys == <<"foo", "bar", "baz", "qux">>
Siblings(n) == [i \in 1..n |-> Sibling]
CompositeFields ==
    {F("", NilValue), F("a", IntV(0)), F("a", IntV(1)),
     F("a", SliceV(<<IntV(0)>>)), F("a", SliceV(<<IntV(0), IntV(1)>>)),
     F("stats", MapV(<<"foo", "bar">>, <<IntV(0), IntV(1)>>))}

MkNested(bound) == Wrap(bound, Nested("int", cur))

MkEachMap(bound) == Wrap(bound, EachMap("map[string]int", cur))

MkEachSlice(bound) == Wrap(bound, EachSlice("[]int", cur))

MkMap(bound) ==
    \E n \in 1..MaxFields :
        Wrap(bound, Map("map[string]int", SubSeq(Keys, 1, n), <<cur>> \o Siblings(n - 1)))

MkSlice(bound) ==
    \E n \in 1..MaxFields : Wrap(bound, Slice("[]int", <<cur>> \o Siblings(n - 1)))

MkSchema(bound) ==
    \E n \in 1..MaxFields : \E value \in {IntV(0), IntV(1)} :
        Wrap(bound, Schema(<<F("x", value)>> \o [i \in 1..(n - 1) |-> F("y" \o Itoa(i), IntV(0))],
                           <<cur>> \o Siblings(n - 1)))

MkValue(bound) ==
    \E value \in {IntV(0), IntV(1)} : Wrap(bound, Value(value, cur))

DoValidate(fields) ==
    /\ ~validated
    /\ \E f \in fields : \E o \in Validate(cur, f, <<>>) :
           /\ validated' = TRUE
           /\ field' = f
           /\ out' = o
           /\ cur' = AfterValidate(cur, f)
    /\ UNCHANGED <<depth, runs>>

\* The caller drops the result, and goes on building or validates again.
Discard ==
    /\ validated
    /\ NotValidated
    /\ UNCHANGED <<cur, depth>>

Next ==
    \/ MkAll(MaxDepth)
    \/ MkAny(MaxDepth)
    \/ MkEmpty(MaxDepth)
    \/ MkNot(MaxDepth)
    \/ MkLazy(MaxDepth)
    \/ MkZeroOr(MaxDepth)
    \/ DoMsg
    \/ DoLastError
    \/ DoValidate(Fields)
    \/ Discard

Spec == Init /\ [][Next]_vars

\* Every composite, around a leaf.
NextComposite ==
    \/ MkAll(MaxNest)
    \/ MkAny(MaxNest)
    \/ MkEmpty(MaxNest)
    \/ MkNot(MaxNest)
    \/ MkLazy(MaxNest)
    \/ MkZeroOr(MaxNest)
    \/ MkNested(MaxNest)
    \/ MkEachMap(MaxNest)
    \/ MkEachSlice(MaxNest)
    \/ MkMap(MaxNest)
    \/ MkSlice(MaxNest)
    \/ MkSchema(MaxNest)
    \/ MkValue(MaxNest)
    \/ DoMsg
    \/ DoLastError
    \/ DoValidate(CompositeFields)
    \/ Discard

SpecComposite == Init /\ [][NextComposite]_vars

\* Schemas, slices and maps nested in one another, down to one leaf.
PathLeaves == {Nonzero("int")}
PathEntries ==
    {F("", IntV(0)), F("x", IntV(0)),
     F("x", SliceV(<<IntV(0), IntV(1)>>)),
     F("x", MapV(<<"foo", "bar">>, <<IntV(0), IntV(1)>>))}
PathFields ==
    {F("", NilValue),
     F("", SliceV(<<IntV(0), IntV(1)>>)), F("a", SliceV(<<IntV(0), IntV(1)>>)),
     F("", MapV(<<"foo", "bar">>, <<IntV(0), IntV(1)>>)),
     F("stats", MapV(<<"foo", "bar">>, <<IntV(0), IntV(1)>>))}

InitPath ==
    /\ cur \in PathLeaves
    /\ depth = 0
    /\ validated = FALSE
    /\ field = F("", NilValue)
    /\ out = Return(Nil)
    /\ runs = <<>>

MkEntry(bound) ==
    \/ \E f \in PathEntries : Wrap(bound, Schema(<<f>>, <<cur>>))
    \/ Wrap(bound, Schema(<<F("x", IntV(0)), F("y", IntV(0))>>, <<cur, Sibling>>))

NextPath ==
    \/ MkEntry(MaxPath)
    \/ MkNested(MaxPath)
    \/ MkEachMap(MaxPath)
    \/ MkEachSlice(MaxPath)
    \/ MkMap(MaxPath)
    \/ MkSlice(MaxPath)
    \/ DoValidate(PathFields)
    \/ Discard

SpecPath == InitPath /\ [][NextPath]_vars

\* The leaf validators, over small integers, texts and slices.
Nums == 0..MaxNum
Texts == {"", "x", "xy"}
Floats == {FloatV(0), FloatV(1), NaN}
NumLists ==
    {<<>>, <<IntV(0), IntV(MaxNum)>>} \cup {<<IntV(n)>> : n \in Nums}
Regexps == {<<>>, <<StrV("x")>>, <<StrV(""), StrV("xy")>>}
LeafValidators ==
    {Nonzero("int"), Nonzero("string"), Zero("int"), Zero("string")}
    \cup {LenString(min, max) : min \in Nums, max \in Nums}
    \cup {LenSlice("[]int", min, max) : min \in Nums, max \in Nums}
    \cup {RuneCount(min, max) : min \in Nums, max \in Nums}
    \cup {Eq("int", IntV(n)) : n \in Nums} \cup {Eq("string", StrV(t)) : t \in Texts}
    \cup {Ne("int", IntV(n)) : n \in Nums} \cup {Ne("string", StrV(t)) : t \in Texts}
    \cup {Gt("int", IntV(n)) : n \in Nums} \cup {Gte("int", IntV(n)) : n \in Nums}
    \cup {Lt("int", IntV(n)) : n \in Nums} \cup {Lte("int", IntV(n)) : n \in Nums}
    \cup {Range("int", IntV(min), IntV(max)) : min \in Nums, max \in Nums}
    \cup {Eq("float64", x) : x \in Floats} \cup {Ne("float64", x) : x \in Floats}
    \cup {Gt("float64", x) : x \in Floats} \cup {Gte("float64", x) : x \in Floats}
    \cup {Lt("float64", x) : x \in Floats} \cup {Lte("float64", x) : x \in Floats}
    \cup {Range("float64", FloatV(min), FloatV(max)) : min \in {0, 1}, max \in {0, 1}}
    \cup {In("int", values) : values \in NumLists}
    \cup {Nin("int", values) : values \in NumLists}
    \cup {Match(re) : re \in Regexps}
    \cup {Is("int", f) : f \in NumLists}
\* Utf8V("e~", 1) stands for a text of one rune encoded in two bytes.
LeafFields ==
    {F("", NilValue)}
    \cup {F("a", IntV(n)) : n \in Nums}
    \cup {F("a", StrV(t)) : t \in Texts}
    \cup {F("a", x) : x \in Floats}
    \cup {F("a", Utf8V("e~", 1)), F("a", BytesV("x")), F("a", FuncValue),
          F("a", SliceV(<<>>)), F("a", SliceV(<<IntV(0)>>)),
          F("a", SliceV(<<IntV(0), IntV(1)>>))}

InitLeaf ==
    /\ cur \in LeafValidators
    /\ depth = 0
    /\ validated = FALSE
    /\ field = F("", NilValue)
    /\ out = Return(Nil)
    /\ runs = <<>>

NextLeaf ==
    \/ MkNot(MaxNest)
    \/ DoMsg
    \/ DoValidate(LeafFields)
    \/ Discard

SpecLeaf == InitLeaf /\ [][NextLeaf]_vars

\* ------------------------------------------------------- concurrent calls
\* Two goroutines call cur.Validate at once.  A call keeps its field, the
\* order in which it ranges over the map of a Schema, and the locals of the
\* loop of cur: its position, errs and lastErr.  One step is one iteration
\* of that loop, the call of the sub-validator included, so the steps of
\* the two calls interleave; a step reads the validator as it is then.
ConcurrentLeaves == {Nonzero("int"), Func(FALSE, <<ErrInvalid, ErrUnsupported>>, "custom")}
ConcurrentFields == {F("a", IntV(0)), F("", IntV(1))}

\* The orders in which a call may go through the loop of v.
Iterations(v) ==
    IF v.op = "Schema" THEN Orders(Len(v.validators))
    ELSE IF v.op \in {"All", "Any"} THEN {[i \in 1..Len(v.validators) |-> i]}
    ELSE {<<1>>}

\* The locals of a call of v.Validate(f) as it enters; start is the
\* validator as the call found it.
NewRun(v, f, order) ==
    [field |-> f, start |-> v, order |-> order, i |-> 1, errs |-> Nil, lastErr |-> Nil,
     done |-> FALSE, panic |-> FALSE, interleaved |-> FALSE]

\* The outcomes of the call that the next iteration of run r makes.
Iteration(v, r) ==
    IF v.op = "Schema"
    THEN Validate(v.validators[r.order[r.i]],
                  PrefixedField(v.fields[r.order[r.i]], r.field.Name), <<r.order[r.i]>>)
    ELSE IF v.op \in {"All", "Any"} THEN Validate(v.validators[r.i], r.field, <<r.i>>)
    ELSE Validate(v, r.field, <<>>)

\* The locals of run r after that iteration, whose call had outcome o.
Iterated(v, r, o) ==
    IF o.panic THEN [r EXCEPT !.done = TRUE, !.panic = TRUE, !.errs = Nil]
    ELSE IF v.op = "Schema"
    THEN [r EXCEPT !.i = r.i + 1, !.errs = Accumulate(r.errs, o.errs)]
    ELSE IF v.op = "All"
    THEN IF AllReturns(o.errs) THEN [r EXCEPT !.done = TRUE, !.errs = o.errs]
         ELSE [r EXCEPT !.i = r.i + 1]
    ELSE IF v.op = "Any"
    THEN IF AnySucceeds(o.errs) THEN [r EXCEPT !.done = TRUE, !.errs = Nil]
         ELSE [r EXCEPT !.i = r.i + 1, !.errs = ErrorsAppend(r.errs, o.errs),
                        !.lastErr = o.errs]
    ELSE [r EXCEPT !.done = TRUE, !.errs = o.errs]

\* The validator after that iteration.
IteratedValidator(v, r) ==
    IF v.op = "Schema"
    THEN [v EXCEPT !.fields[r.order[r.i]] = KeyAfter(@, r.field.Name),
                   !.validators[r.order[r.i]] =
                       AfterValidate(@, PrefixedField(v.fields[r.order[r.i]], r.field.Name))]
    ELSE IF v.op \in {"All", "Any"}
    THEN [v EXCEPT !.validators[r.i] = AfterValidate(@, r.field)]
    ELSE AfterValidate(v, r.field)

\* The locals of run r as its loop is over and it returns.
Returned(v, r) ==
    [r EXCEPT !.done = TRUE,
              !.errs = IF v.op = "Any" THEN AnyReturn(v, r.errs, r.lastErr)
                       ELSE IF v.op = "All" THEN Nil
                       ELSE r.errs]

\* Whether a run other than p is between its first iteration and its return.
OthersUnderWay(p) == \E q \in DOMAIN runs : q # p /\ runs[q].i > 1 /\ ~runs[q].done

InitConcurrent ==
    /\ cur \in ConcurrentLeaves
    /\ depth = 0
    /\ validated = FALSE
    /\ field = F("", NilValue)
    /\ out = Return(Nil)
    /\ runs = <<>>

\* The validator is built before it is shared.
Build ==
    /\ runs = <<>>
    /\ \/ MkAll(MaxNest)
       \/ MkAny(MaxNest)
       \/ MkEntry(MaxNest)
       \/ DoLastError

Go ==
    /\ runs = <<>>
    /\ \E f1, f2 \in ConcurrentFields : \E order1, order2 \in Iterations(cur) :
           runs' = <<NewRun(cur, f1, order1), NewRun(cur, f2, order2)>>
    /\ UNCHANGED <<cur, depth, validated, field, out>>

RunStep ==
    /\ \E p \in DOMAIN runs :
           /\ ~runs[p].done
           /\ IF runs[p].i > Len(runs[p].order)
              THEN /\ runs' = [runs EXCEPT ![p] = Returned(cur, runs[p])]
                   /\ cur' = cur
              ELSE /\ \E o \in Iteration(cur, runs[p]) :
                          runs' = [runs EXCEPT ![p] =
                                      [Iterated(cur, runs[p], o)
                                          EXCEPT !.interleaved = @ \/ OthersUnderWay(p)]]
                   /\ cur' = IteratedValidator(cur, runs[p])
    /\ UNCHANGED <<depth, validated, field, out>>

\* Both calls have returned; their results are dropped.
Join ==
    /\ runs # <<>>
    /\ \A p \in DOMAIN runs : runs[p].done
    /\ runs' = <<>>
    /\ UNCHANGED <<cur, depth, validated, field, out>>

NextConcurrent ==
    \/ Build
    \/ Go
    \/ RunStep
    \/ Join

SpecConcurrent == InitConcurrent /\ [][NextConcurrent]_vars

\* ---------------------------------------------------------------- claims
\* What the claims speak of: the wrapped validators of cur, and what each
\* returns alone on the field cur was called with (the logical combinators
\* iterate no map, so each has one outcome).
Only(S) == CHOOSE x \in S : TRUE
NumSubs == Len(cur.validators)
SubOut(j) == Only(Validate(cur.validators[j], field, <<j>>))
NoErrors(errs) == Len(errs.list) = 0
Fails(j) == ~NoErrors(SubOut(j).errs)
HasKind(errs, kind) == \E i \in 1..Len(errs.list) : errs.list[i].kind = kind
OnlyKind(errs, kind) == \A i \in 1..Len(errs.list) : errs.list[i].kind = kind
Least(S) == CHOOSE x \in S : \A y \in S : x <= y

RECURSIVE ErrorsOfSubs(_, _)
\* The errors of sub-validators j..k, in argument order.
ErrorsOfSubs(j, k) ==
    IF j > k THEN <<>> ELSE SubOut(j).errs.list \o ErrorsOfSubs(j + 1, k)

RECURSIVE CallsOfSubs(_, _)
\* The calls made when sub-validators j..k are run one after the other.
CallsOfSubs(j, k) ==
    IF j > k THEN <<>> ELSE SubOut(j).calls \o CallsOfSubs(j + 1, k)

\* The calls of a run of cur that invokes sub-validators 1..k and no other.
RunsExactly(k) == Tail(out.calls) = CallsOfSubs(1, k)

\* The calls cur made itself, in the order it made them: those of its own
\* validators and, where EachMap, EachSlice, Map or Slice was handed a
\* Schema (used as it is by toSchema), those of that Schema's validators.
InvokedByCur ==
    SelectSeq(Tail(out.calls),
              LAMBDA c : \/ Len(c.at) = 1
                         \/ /\ Len(c.at) = 2
                            /\ cur.op \in {"EachMap", "EachSlice", "Map", "Slice"}
                            /\ cur.validators[c.at[1]].op = "Schema")

RECURSIVE ErrorsOfCalls(_)
\* What the given calls returned, one after the other.
ErrorsOfCalls(calls) ==
    IF calls = <<>> THEN <<>> ELSE Head(calls).errs.list \o ErrorsOfCalls(Tail(calls))

\* C1: Schema.Validate invokes the validator of every field, whatever the
\* others return, and returns exactly the errors its validators returned,
\* unchanged; N fields that each yield one error give N errors, in every
\* iteration order.
C1_SchemaAggregatesEveryField ==
    (validated /\ cur.op = "Schema" /\ ~out.panic) =>
        /\ \A i \in 1..NumSubs :
               Cardinality({k \in DOMAIN InvokedByCur : InvokedByCur[k].at = <<i>>}) = 1
        /\ Len(InvokedByCur) = NumSubs
        /\ out.errs.list = ErrorsOfCalls(InvokedByCur)
        /\ (\A k \in DOMAIN InvokedByCur : Len(InvokedByCur[k].errs.list) = 1)
               => Len(out.errs.list) = NumSubs

C1_Witness ==
    /\ validated
    /\ cur.op = "Schema"
    /\ NumSubs = 2
    /\ \A k \in DOMAIN InvokedByCur : Len(InvokedByCur[k].errs.list) = 1
    /\ InvokedByCur[1].at = <<2>>
    /\ Len(out.errs.list) = 2
    /\ out.errs.list[1].field = "a.y1"
    /\ out.errs.list[2].field = "a.x"

\* C2: All runs its sub-validators in argument order and stops at the first
\* one whose result is non-empty: it returns exactly that one's errors,
\* invokes none after it (a Lazy after a failing validator is never called),
\* and returns no errors only if every sub-validator returns none.
C2_AllStopsAtFirstNonEmpty ==
    (validated /\ cur.op = "All") =>
        LET failing == {j \in 1..NumSubs : Fails(j)} IN
        IF failing = {}
        THEN NoErrors(out.errs) /\ RunsExactly(NumSubs)
        ELSE /\ out.errs.list = SubOut(Least(failing)).errs.list
             /\ RunsExactly(Least(failing))

\* C3: Any returns no errors iff it has no sub-validator or at least one of
\* them returns no errors; they run in argument order and none is invoked
\* after the first one that succeeds.
C3_AnySucceedsIffOneDoes ==
    (validated /\ cur.op = "Any") =>
        LET ok == {j \in 1..NumSubs : ~Fails(j)} IN
        /\ NoErrors(out.errs) <=> (NumSubs = 0 \/ ok # {})
        /\ RunsExactly(IF ok = {} THEN NumSubs ELSE Least(ok))

\* C4: in default mode, when every sub-validator of Any fails, Any returns
\* the concatenation of all their errors in argument order.
C4_AnyConcatenates ==
    (/\ validated
     /\ cur.op = "Any"
     /\ ~cur.returnLastError
     /\ \A j \in 1..NumSubs : Fails(j))
        => out.errs.list = ErrorsOfSubs(1, NumSubs)

C4_Witness ==
    /\ validated
    /\ cur.op = "Any"
    /\ ~cur.returnLastError
    /\ NumSubs = 2
    /\ \A j \in 1..NumSubs : Fails(j)
    /\ SubOut(1).errs.list # SubOut(2).errs.list
    /\ Len(out.errs.list) = 3

\* C5: after LastError(), when every sub-validator fails, Any returns
\* exactly the errors of the last sub-validator and none of the earlier ones.
C5_AnyLastError ==
    (/\ validated
     /\ cur.op = "Any"
     /\ cur.returnLastError
     /\ NumSubs > 0
     /\ \A j \in 1..NumSubs : Fails(j))
        => out.errs.list = SubOut(NumSubs).errs.list

C5_Witness ==
    /\ validated
    /\ cur.op = "Any"
    /\ cur.returnLastError
    /\ NumSubs = 2
    /\ \A j \in 1..NumSubs : Fails(j)
    /\ SubOut(1).errs.list # SubOut(2).errs.list
    /\ out.errs.list = SubOut(2).errs.list

\* C6: when the wrapped validator returns no errors, Not returns exactly one
\* INVALID error on the field's name with Not's current message ("is
\* invalid" unless Msg set another); when the wrapped validator returns only
\* INVALID errors, Not returns no errors.
C6_NotNegates ==
    (validated /\ cur.op = "Not") =>
        /\ cur.Message \in {"is invalid", "is not ok"}
        /\ NoErrors(SubOut(1).errs) =>
               out.errs.list = <<NewError(field.Name, ErrInvalid, cur.Message)>>
        /\ (Fails(1) /\ OnlyKind(SubOut(1).errs, ErrInvalid)) => NoErrors(out.errs)

C6_Witness ==
    /\ validated
    /\ cur.op = "Not"
    /\ NoErrors(SubOut(1).errs)
    /\ field.Name = "a"
    /\ out.errs.list = <<NewError("a", ErrInvalid, "is not ok")>>

\* C7: for a validator v that returns no errors or only INVALID errors on
\* the field, Not(Not(v)) returns no errors iff v returns no errors.
InnerOut == Only(Validate(cur.validators[1].validators[1], field, <<1, 1>>))

C7_NotInvolution ==
    (/\ validated
     /\ cur.op = "Not"
     /\ cur.validators[1].op = "Not"
     /\ OnlyKind(InnerOut.errs, ErrInvalid))
        => (NoErrors(out.errs) <=> NoErrors(InnerOut.errs))

C7_Witness ==
    /\ validated
    /\ cur.op = "Not"
    /\ cur.validators[1].op = "Not"
    /\ ~NoErrors(InnerOut.errs)
    /\ OnlyKind(InnerOut.errs, ErrInvalid)
    /\ ~NoErrors(out.errs)

\* C8: whenever the validator wrapped by Not returns an UNSUPPORTED error,
\* Not's result contains an UNSUPPORTED error and no INVALID error.
C8_NotKeepsUnsupported ==
    (validated /\ cur.op = "Not" /\ HasKind(SubOut(1).errs, ErrUnsupported))
        => (HasKind(out.errs, ErrUnsupported) /\ ~HasKind(out.errs, ErrInvalid))

C8_Witness ==
    /\ validated
    /\ cur.op = "Not"
    /\ HasKind(SubOut(1).errs, ErrUnsupported)
    /\ HasKind(SubOut(1).errs, ErrInvalid)
    /\ HasKind(out.errs, ErrUnsupported)

\* C9: when the first error of the validator wrapped by Not is UNRECOGNIZED,
\* Not returns an UNRECOGNIZED error: it is never turned into success.
C9_NotKeepsUnrecognized ==
    (/\ validated
     /\ cur.op = "Not"
     /\ Fails(1)
     /\ SubOut(1).errs.list[1].kind = ErrUnrecognized)
        => HasKind(out.errs, ErrUnrecognized)

\* The composite validators.
Composites ==
    {"All", "Any", "Not", "Nested", "EachMap", "EachSlice", "Map", "Slice", "Schema"}

\* C10 as claimed: for every composite, if a sub-validator it invoked
\* returned an UNSUPPORTED error, the composite's result contains an
\* UNSUPPORTED error.
C10_UnsupportedNeverLost ==
    (/\ validated
     /\ cur.op \in Composites
     /\ ~out.panic
     /\ \E k \in DOMAIN InvokedByCur : HasKind(InvokedByCur[k].errs, ErrUnsupported))
        => HasKind(out.errs, ErrUnsupported)

\* C10 as amended: the same for All, Not, Nested, EachMap, EachSlice, Map,
\* Slice and Schema, and for Any in default mode when none of its
\* sub-validators returns nil.  (Any returns nil as soon as a sub-validator
\* returns nil and, after LastError(), as ZeroOr does, only the errors of
\* the last one.)
C10_UnsupportedKeptExceptByAny ==
    (/\ validated
     /\ cur.op \in Composites
     /\ ~out.panic
     /\ cur.op = "Any" =>
            /\ ~cur.returnLastError
            /\ \A k \in DOMAIN InvokedByCur : InvokedByCur[k].errs # Nil
     /\ \E k \in DOMAIN InvokedByCur : HasKind(InvokedByCur[k].errs, ErrUnsupported))
        => HasKind(out.errs, ErrUnsupported)

C10_Witness ==
    /\ validated
    /\ cur.op = "Any"
    /\ ~cur.returnLastError
    /\ Len(InvokedByCur) = 2
    /\ HasKind(InvokedByCur[1].errs, ErrUnsupported)
    /\ ~HasKind(InvokedByCur[2].errs, ErrUnsupported)
    /\ HasKind(out.errs, ErrUnsupported)

\* FirstChar/LastChar of a path that is not empty.
FirstChar(s) == SubSeq(s, 1, 1)
LastChar(s) == SubSeq(s, Len(s), Len(s))

\* C11: under a Schema validated on a field named p, the validator of the
\* entry named n is handed, and reports its errors under, p.n when both are
\* non-empty, p when n is empty and n when p is empty; no reported path
\* starts or ends with a dot.
C11_SchemaPathJoin ==
    (validated /\ ~out.panic) =>
        /\ cur.op = "Schema" =>
               \A k \in DOMAIN InvokedByCur :
                   LET c == InvokedByCur[k]
                       p == field.Name
                       n == cur.fields[c.at[1]].Name
                   IN /\ (p # "" /\ n # "") => c.field.Name = p \o "." \o n
                      /\ n = "" => c.field.Name = p
                      /\ p = "" => c.field.Name = n
                      /\ c.field.Value = cur.fields[c.at[1]].Value
                      /\ cur.validators[c.at[1]].op \in {"Nonzero", "Func"} =>
                             \A i \in 1..Len(c.errs.list) : c.errs.list[i].field = c.field.Name
        /\ \A i \in 1..Len(out.errs.list) :
               LET path == out.errs.list[i].field
               IN path # "" => (FirstChar(path) # "." /\ LastChar(path) # ".")

C11_Witness ==
    /\ validated
    /\ cur.op = "Schema"
    /\ field.Name = "a"
    /\ Len(cur.fields) = 1
    /\ cur.fields[1].Name = "x"
    /\ cur.validators[1].op = "Schema"
    /\ cur.validators[1].fields[1].Name = ""
    /\ Len(out.errs.list) > 0
    /\ \A i \in 1..Len(out.errs.list) : out.errs.list[i].field = "a.x"

\* The path of the entry named n of element seg of the field named p.
ElemPath(p, seg, n) ==
    IF n = "" THEN p \o "[" \o seg \o "]" ELSE p \o "[" \o seg \o "]." \o n
\* The name of the schema entry whose validator call c invoked, "" when the
\* validator handed to cur is not a Schema.
EntryNames(i) ==
    IF cur.validators[i].op = "Schema"
    THEN {cur.validators[i].fields[j].Name : j \in 1..Len(cur.validators[i].fields)}
    ELSE {""}
EntryName(c) ==
    IF Len(c.at) = 2 THEN cur.validators[c.at[1]].fields[c.at[2]].Name ELSE ""
\* The indices or keys that validator i of cur is applied to.
Segments(i) ==
    CASE cur.op = "EachSlice" -> {Digits[j] : j \in 1..Len(field.Value.elems)}
      [] cur.op = "EachMap" -> {field.Value.keys[j] : j \in 1..Len(field.Value.keys)}
      [] cur.op = "Slice" -> {Digits[i]}
      [] cur.op = "Map" -> {cur.keys[i]}

\* C12: EachSlice and Slice report the errors of element i of the field
\* named p under p[i], EachMap and Map those of key k under p[k], followed
\* by .name for a named entry of a schema; with p empty the path is [i] or
\* [k].
C12_ElementPaths ==
    (/\ validated
     /\ cur.op \in {"EachSlice", "Slice", "EachMap", "Map"}
     /\ ~out.panic
     /\ TypeOf(field.Value) = cur.T) =>
        /\ \A k \in DOMAIN InvokedByCur :
               LET c == InvokedByCur[k]
               IN /\ c.field.Name \in {ElemPath(field.Name, seg, EntryName(c))
                                        : seg \in Segments(c.at[1])}
                  /\ (Len(c.at) = 1 /\ cur.validators[c.at[1]].op \in {"Nonzero", "Func"}) =>
                         \A i \in 1..Len(c.errs.list) : c.errs.list[i].field = c.field.Name
        /\ \A i \in 1..NumSubs : \A seg \in Segments(i) : \A n \in EntryNames(i) :
               \E k \in DOMAIN InvokedByCur :
                   /\ InvokedByCur[k].at[1] = i
                   /\ InvokedByCur[k].field.Name = ElemPath(field.Name, seg, n)
        /\ out.errs.list = ErrorsOfCalls(InvokedByCur)

C12_Witness ==
    /\ validated
    /\ cur.op = "EachSlice"
    /\ cur.validators[1].op = "Schema"
    /\ field = F("", SliceV(<<IntV(0), IntV(1)>>))
    /\ Len(out.errs.list) = 2
    /\ out.errs.list[1].field = "[0].x"
    /\ out.errs.list[2].field = "[1].x"

\* The steps from the root to a value: field names and [index] or [key].
NameStep(n) == [kind |-> "name", text |-> n]
IndexStep(seg) == [kind |-> "index", text |-> "[" \o seg \o "]"]

RECURSIVE Precomposed(_)
\* The path string written by hand for the given steps, innermost first: a
\* name is joined to what follows it with a dot, an index or key without.
Precomposed(steps) ==
    IF steps = <<>> THEN ""
    ELSE LET rest == Precomposed(Tail(steps))
             text == Head(steps).text
         IN IF text = "" THEN rest
            ELSE IF rest = "" THEN text
            ELSE IF FirstChar(rest) = "[" THEN text \o rest
            ELSE text \o "." \o rest

RECURSIVE Sub(_, _)
\* The validator at path at of the tree v.
Sub(v, at) == IF at = <<>> THEN v ELSE Sub(v.validators[Head(at)], Tail(at))

RECURSIVE Terminals(_, _, _, _)
\* The values at the ends of the structure validated by v (at path at) on
\* value, each with the steps that lead to it: the values handed to leaf
\* validators, and those a schema, slice or map validator rejects for their
\* type.
Terminals(v, value, at, steps) ==
    LET element(i, val, seg) ==
            IF v.validators[i].op = "Schema"
            THEN Terminals(v.validators[i], val, at \o <<i>>, steps \o <<IndexStep(seg)>>)
            ELSE Terminals(v.validators[i], val, at \o <<i>>,
                           steps \o <<IndexStep(seg), NameStep("")>>)
        terminal == {[at |-> at, steps |-> steps, value |-> value]}
    IN CASE v.op = "Schema" ->
                UNION {Terminals(v.validators[i], v.fields[i].Value, at \o <<i>>,
                                 steps \o <<NameStep(v.fields[i].Name)>>)
                       : i \in 1..Len(v.validators)}
         [] v.op \in {"Nested", "EachSlice", "Slice", "EachMap", "Map"}
                /\ TypeOf(value) # v.T -> terminal
         [] v.op = "Nested" /\ TypeOf(value) = v.T ->
                Terminals(v.validators[1], value, at \o <<1>>, steps)
         [] v.op = "EachSlice" /\ TypeOf(value) = v.T ->
                UNION {element(1, value.elems[i], Digits[i]) : i \in 1..Len(value.elems)}
         [] v.op = "Slice" /\ TypeOf(value) = v.T ->
                UNION {element(i, value.elems[i], Digits[i]) : i \in 1..Len(v.validators)}
         [] v.op = "EachMap" /\ TypeOf(value) = v.T ->
                UNION {element(1, value.elems[i], value.keys[i]) : i \in 1..Len(value.keys)}
         [] v.op = "Map" /\ TypeOf(value) = v.T ->
                UNION {element(i, MapIndex(value, v.keys[i]), v.keys[i])
                       : i \in 1..Len(v.validators)}
         [] OTHER -> terminal

\* What the validator of terminal t returns when it is called directly on
\* the value of t, under a field named with the path written by hand.
Directly(t) ==
    Only(Validate(Sub(cur, t.at), F(Precomposed(t.steps), t.value), t.at)).errs.list

TerminalCall(c) ==
    LET node == Sub(cur, c.at)
    IN \/ node.op \in {"Nonzero", "Func"}
       \/ /\ node.op \in {"Nested", "EachSlice", "Slice", "EachMap", "Map"}
          /\ TypeOf(c.field.Value) # node.T

\* C13: for every value nested in schemas, slices and maps, validating the
\* whole structure hands the value to its validator under, and reports its
\* errors with, the path obtained by validating that value directly under a
\* field named with the pre-composed path.
C13_PathsCompose ==
    (validated /\ ~out.panic) =>
        LET terminals == Terminals(cur, field.Value, <<>>, <<NameStep(field.Name)>>)
        IN /\ \A k \in DOMAIN out.calls :
                  TerminalCall(out.calls[k]) =>
                      \E t \in terminals :
                          /\ t.at = out.calls[k].at
                          /\ out.calls[k].field = F(Precomposed(t.steps), t.value)
                          /\ out.calls[k].errs.list = Directly(t)
           /\ \A t \in terminals :
                  \E k \in DOMAIN out.calls :
                      /\ out.calls[k].at = t.at
                      /\ out.calls[k].field = F(Precomposed(t.steps), t.value)
           /\ {out.errs.list[i] : i \in 1..Len(out.errs.list)}
                  = UNION {{Directly(t)[i] : i \in 1..Len(Directly(t))} : t \in terminals}

C13_Witness ==
    /\ validated
    /\ depth = 3
    /\ field.Name = "a"
    /\ cur.op = "Schema"
    /\ cur.validators[1].op = "EachSlice"
    /\ cur.validators[1].validators[1].op = "Schema"
    /\ \E i \in 1..Len(out.errs.list) : out.errs.list[i].field = "a.x[1].x"

\* C14: an error renders as "<field>: <KIND>(<message>)" when its field
\* path is not empty and as "<KIND>(<message>)", without prefix or colon,
\* when it is empty, as it is for the errors of Validate(Value(x, v)).
C14_ErrorString ==
    validated =>
        \A i \in 1..Len(out.errs.list) :
            LET e == out.errs.list[i]
                str == ErrorString(e)
                tail == e.kind \o "(" \o e.message \o ")"
            IN /\ e.field # "" =>
                      /\ str = e.field \o ": " \o tail
                      /\ SubSeq(str, 1, Len(e.field) + Len(": ")) = e.field \o ": "
                      /\ Len(str) = Len(e.field) + Len(": ") + Len(tail)
               /\ e.field = "" =>
                      /\ str = tail
                      /\ SubSeq(str, 1, Len(e.kind) + Len("(")) = e.kind \o "("
               /\ LastChar(str) = ")"
               /\ (/\ cur.op = "Schema"
                   /\ Len(cur.fields) = 1
                   /\ cur.fields[1].Name = ""
                   /\ cur.validators[1].op \in {"Nonzero", "Func"}
                   /\ field = F("", NilValue)) => e.field = ""

C14_Witness ==
    /\ validated
    /\ cur = Value(IntV(0), Nonzero("int"))
    /\ field = F("", NilValue)
    /\ Len(out.errs.list) = 1
    /\ ErrorString(out.errs.list[1]) = "INVALID(is zero valued)"

\* The leaf validators, the values each accepts, and the predicate each
\* stands for.
LeafOps ==
    {"Nonzero", "Zero", "LenString", "LenSlice", "RuneCount", "Eq", "Ne", "Gt", "Gte",
     "Lt", "Lte", "Range", "In", "Nin", "Match", "Is"}
Accepts(v, x) ==
    CASE v.op \in {"RuneCount", "Match"} -> x.type \in {"string", "[]uint8"}
      [] v.op = "LenString" -> x.type = "string"
      [] OTHER -> x.type = v.T
Between(n, min, max) == min <= n /\ n <= max
\* Two values are numbers (a NaN is greater than, lower than and equal to
\* nothing); two values are the same, which no NaN is.
Numbers(x, y) == ~IsNaN(x) /\ ~IsNaN(y)
Same(x, y) == Numbers(x, y) /\ x = y
Holds(v, x) ==
    CASE v.op = "Nonzero" -> IF v.T = "int" THEN x.num # 0 ELSE x.str # ""
      [] v.op = "Zero" -> IF v.T = "int" THEN x.num = 0 ELSE x.str = ""
      [] v.op = "LenString" -> Between(Len(x.str), v.args[1].num, v.args[2].num)
      [] v.op = "LenSlice" -> Between(Len(x.elems), v.args[1].num, v.args[2].num)
      [] v.op = "RuneCount" -> Between(Len(x.str) - x.num, v.args[1].num, v.args[2].num)
      [] v.op = "Eq" -> Same(x, v.args[1])
      [] v.op = "Ne" -> ~Same(x, v.args[1])
      [] v.op = "Gt" -> Numbers(x, v.args[1]) /\ x.num > v.args[1].num
      [] v.op = "Gte" -> Numbers(x, v.args[1]) /\ x.num >= v.args[1].num
      [] v.op = "Lt" -> Numbers(x, v.args[1]) /\ x.num < v.args[1].num
      [] v.op = "Lte" -> Numbers(x, v.args[1]) /\ x.num <= v.args[1].num
      [] v.op = "Range" ->
             /\ Numbers(x, v.args[1])
             /\ Numbers(x, v.args[2])
             /\ Between(x.num, v.args[1].num, v.args[2].num)
      [] v.op = "In" -> \E i \in 1..Len(v.args) : Same(x, v.args[i])
      [] v.op = "Nin" -> \A i \in 1..Len(v.args) : ~Same(x, v.args[i])
      [] v.op = "Match" -> x.str \in {v.args[i].str : i \in 1..Len(v.args)}
      [] v.op = "Is" -> x \in {v.args[i] : i \in 1..Len(v.args)}

\* C15: a leaf validator applied to a value of the type it accepts returns
\* no errors when its predicate holds, and otherwise exactly one error, of
\* kind INVALID, on the field's name, with the validator's current message.
C15_LeafInvalidOrNothing ==
    (validated /\ cur.op \in LeafOps /\ Accepts(cur, field.Value)) =>
        IF Holds(cur, field.Value)
        THEN NoErrors(out.errs)
        ELSE out.errs.list = <<NewError(field.Name, ErrInvalid, cur.Message)>>

ErrorsOn(v, f) == Only(Validate(v, f, <<>>)).errs

\* C17: Msg(s) with s not empty makes every INVALID error the validator
\* produces afterwards carry s; Msg("") leaves the message as it is; Msg
\* changes neither whether the validator succeeds or fails nor the message
\* of an UNSUPPORTED error.
C17_MsgSetsInvalidMessageOnly ==
    /\ IsMessageValidator(cur) =>
           \A msg \in Messages : \A f \in LeafFields :
               LET before == ErrorsOn(cur, f)
                   after == ErrorsOn(Msg(cur, msg), f)
               IN /\ msg = "" => (Msg(cur, msg).Message = cur.Message /\ after = before)
                  /\ NoErrors(after) <=> NoErrors(before)
                  /\ Len(after.list) = Len(before.list)
                  /\ \A i \in 1..Len(after.list) :
                         /\ after.list[i].kind = before.list[i].kind
                         /\ after.list[i].field = before.list[i].field
                         /\ (after.list[i].kind = ErrInvalid /\ msg # "") =>
                                after.list[i].message = msg
                         /\ after.list[i].kind = ErrUnsupported =>
                                after.list[i].message = before.list[i].message
    /\ (validated /\ IsMessageValidator(cur)) =>
           \A i \in 1..Len(out.errs.list) :
               out.errs.list[i].kind = ErrInvalid => out.errs.list[i].message = cur.Message

C17_Witness ==
    /\ validated
    /\ cur.op = "LenString"
    /\ cur.Message = "is not ok"
    /\ Msg(cur, "") = cur
    /\ field = F("a", StrV("xy"))
    /\ out.errs.list = <<NewError("a", ErrInvalid, "is not ok")>>

\* The positive leaf that a negative leaf is the negation of.
Counterpart(v) ==
    CASE v.op = "Ne" -> Eq(v.T, v.args[1])
      [] v.op = "Lt" -> Gte(v.T, v.args[1])
      [] v.op = "Lte" -> Gt(v.T, v.args[1])
      [] v.op = "Nin" -> In(v.T, v.args)
      [] v.op = "Zero" -> Nonzero(v.T)

\* C18: on every value of the accepted type, Ne succeeds iff Eq fails, Lt
\* iff Gte fails, Lte iff Gt fails, Nin iff In fails and Zero iff Nonzero
\* fails; on a value of another type both members of a pair return
\* UNSUPPORTED, never success and never INVALID.
C18_NegativeLeafNegatesPositive ==
    (validated /\ cur.op \in {"Ne", "Lt", "Lte", "Nin", "Zero"}) =>
        LET positive == ErrorsOn(Counterpart(cur), field)
        IN IF Accepts(cur, field.Value)
           THEN NoErrors(out.errs) <=> ~NoErrors(positive)
           ELSE /\ ~NoErrors(out.errs) /\ OnlyKind(out.errs, ErrUnsupported)
                /\ ~NoErrors(positive) /\ OnlyKind(positive, ErrUnsupported)

\* C19: Range(min, max) succeeds on a value v of its type iff
\* min <= v <= max, which is exactly when All(Gte(min), Lte(max)) succeeds;
\* with min > max it fails on every value.
C19_RangeInclusive ==
    (validated /\ cur.op = "Range" /\ Accepts(cur, field.Value)) =>
        LET min == cur.args[1]
            max == cur.args[2]
            v == field.Value
            inside == /\ Numbers(v, min)
                      /\ Numbers(v, max)
                      /\ min.num <= v.num
                      /\ v.num <= max.num
            both == All(<<Gte(cur.T, min), Lte(cur.T, max)>>)
        IN /\ NoErrors(out.errs) <=> inside
           /\ NoErrors(out.errs) <=> NoErrors(ErrorsOn(both, field))
           /\ min.num > max.num => ~NoErrors(out.errs)

\* The errors of a result, as a set.
ErrorSet(errs) == {errs.list[i] : i \in 1..Len(errs.list)}

\* C20: a Validate call leaves the validator as it was (the fields of a
\* Schema, every message and LastError mode), and validating it again on
\* the same field returns the same set of errors.
C20_Stateless ==
    [][(~validated /\ validated') =>
           /\ cur' = cur
           /\ \A o \in Validate(cur', field', <<>>) :
                  /\ o.panic = out'.panic
                  /\ ~o.panic => ErrorSet(o.errs) = ErrorSet(out'.errs)]_vars

C20_Witness ==
    /\ validated
    /\ cur.op = "Schema"
    /\ Len(cur.fields) = 2
    /\ field.Name = "a"
    /\ cur.fields[1].Name = "x"
    /\ Len(out.errs.list) = 2
    /\ \E o \in Validate(cur, field, <<>>) :
           o.errs.list # out.errs.list /\ ErrorSet(o.errs) = ErrorSet(out.errs)

\* C21: two calls of Validate running at once on one shared validator, their
\* steps interleaved in any way, leave the validator as each found it, and
\* each returns what it returns when it runs alone on its field.
C21_ConcurrentAsAlone ==
    \A p \in DOMAIN runs :
        /\ runs[p].start = cur
        /\ runs[p].done =>
               \E o \in Validate(runs[p].start, runs[p].field, <<>>) :
                   o.panic = runs[p].panic /\ o.errs = runs[p].errs

C21_Witness ==
    /\ Len(runs) = 2
    /\ cur.op = "Schema"
    /\ Len(cur.validators) >= 2
    /\ \A p \in DOMAIN runs :
           runs[p].done /\ runs[p].interleaved /\ Len(runs[p].errs.list) >= 2
    /\ runs[1].errs # runs[2].errs

\* C22: Nonzero on a field whose value is a function, a type outside every
\* type the validators handle, returns exactly one error, of kind
\* UNRECOGNIZED, on that field.
C22_NonzeroUnrecognized ==
    (validated /\ cur.op = "Nonzero" /\ field.Value = FuncValue) =>
        /\ ~out.panic
        /\ Len(out.errs.list) = 1
        /\ out.errs.list[1].kind = ErrUnrecognized
        /\ out.errs.list[1].field = field.Name

\* The path p.n written by hand.
Joined(p, n) == IF p = "" THEN n ELSE IF n = "" THEN p ELSE p \o "." \o n

\* C23: Nested on a field whose value is not a T returns exactly one
\* UNSUPPORTED error, on that field, and does not call the validator of f;
\* on a T it calls that validator once, on the same field, and returns
\* exactly what it returned, so the errors of a nested schema carry the name
\* of the outer field as prefix.
C23_NestedDelegates ==
    validated =>
        \A k \in DOMAIN out.calls :
            LET c == out.calls[k]
                node == Sub(cur, c.at)
                inner == node.validators[1]
                called == k < Len(out.calls) /\ out.calls[k + 1].at = c.at \o <<1>>
            IN node.op = "Nested" =>
                   IF TypeOf(c.field.Value) # node.T
                   THEN /\ ~c.panic
                        /\ Len(c.errs.list) = 1
                        /\ c.errs.list[1].kind = ErrUnsupported
                        /\ c.errs.list[1].field = c.field.Name
                        /\ ~called
                   ELSE /\ called
                        /\ out.calls[k + 1].field = c.field
                        /\ out.calls[k + 1].errs = c.errs
                        /\ out.calls[k + 1].panic = c.panic
                        /\ (inner.op = "Schema"
                            /\ \A i \in DOMAIN inner.validators :
                                   inner.validators[i].op \in {"Nonzero", "Func"}) =>
                               \A j \in 1..Len(c.errs.list) :
                                   \E i \in DOMAIN inner.fields :
                                       c.errs.list[j].field =
                                           Joined(c.field.Name, inner.fields[i].Name)

C23_Witness ==
    /\ validated
    /\ \E k \in DOMAIN out.calls :
           LET c == out.calls[k]
               node == Sub(cur, c.at)
           IN /\ node.op = "Nested"
              /\ TypeOf(c.field.Value) = node.T
              /\ node.validators[1].op = "Schema"
              /\ node.validators[1].fields[1].Name = "x"
              /\ c.field.Name = "a[0]"
              /\ Len(c.errs.list) = 1
              /\ c.errs.list[1].field = "a[0].x"

\* Whether cur is ZeroOr[T](v), which is an Any of Zero[T]() and v.
IsZeroOr == cur.op = "Any" /\ NumSubs = 2 /\ cur.validators[1].op = "Zero"

\* C24: ZeroOr[T](v) returns no errors when the value of the field is the
\* zero value of T or when v returns none; when the value is a T that is
\* not zero and v fails, it returns exactly the errors of v, and nothing of
\* the zero check.
C24_ZeroOr ==
    (validated /\ IsZeroOr) =>
        /\ (field.Value = ZeroValue(cur.validators[1].T) \/ ~Fails(2)) => NoErrors(out.errs)
        /\ (/\ TypeOf(field.Value) = cur.validators[1].T
            /\ field.Value # ZeroValue(cur.validators[1].T)
            /\ Fails(2)) =>
               /\ out.errs = SubOut(2).errs
               /\ \A i \in 1..Len(out.errs.list) : out.errs.list[i] # SubOut(1).errs.list[1]

C24_Witness ==
    /\ validated
    /\ IsZeroOr
    /\ field.Value = IntV(1)
    /\ Fails(1)
    /\ Fails(2)
    /\ Len(out.errs.list) = 2
    /\ out.errs = SubOut(2).errs

\* The index or key of element j of the field cur was called with.
Segment(j) == IF cur.op = "EachSlice" THEN Itoa(j - 1) ELSE field.Value.keys[j]

\* C25: EachSlice and EachMap run the validator for every element, whatever
\* the elements before it returned, and return the errors of all the
\* elements together; EachMap of Nonzero on the map {foo: 0, bar: 1} of the
\* field stats returns exactly one error, on stats[foo]; on a value that is
\* not a T they return exactly one UNSUPPORTED error and validate no
\* element.
C25_EachValidatesEveryElement ==
    (validated /\ cur.op \in {"EachSlice", "EachMap"}) =>
        IF TypeOf(field.Value) # cur.T
        THEN /\ ~out.panic
             /\ Len(out.errs.list) = 1
             /\ out.errs.list[1].kind = ErrUnsupported
             /\ out.errs.list[1].field = field.Name
             /\ Len(out.calls) = 1
        ELSE /\ ~out.panic
             /\ \A j \in 1..Len(field.Value.elems) : \A n \in EntryNames(1) :
                    Cardinality({k \in DOMAIN InvokedByCur :
                                    InvokedByCur[k].field.Name =
                                        ElemPath(field.Name, Segment(j), n)}) = 1
             /\ Len(InvokedByCur) = Len(field.Value.elems) * Cardinality(EntryNames(1))
             /\ cur.validators[1].op # "Schema" =>
                    \A j \in 1..Len(field.Value.elems) :
                        \E k \in DOMAIN InvokedByCur :
                            InvokedByCur[k].field =
                                F(ElemPath(field.Name, Segment(j), ""), field.Value.elems[j])
             /\ out.errs.list = ErrorsOfCalls(InvokedByCur)
             /\ (/\ cur = EachMap("map[string]int", Nonzero("int"))
                 /\ field = F("stats", MapV(<<"foo", "bar">>, <<IntV(0), IntV(1)>>))) =>
                    /\ Len(out.errs.list) = 1
                    /\ out.errs.list[1].field = "stats[foo]"

C25_Witness ==
    /\ validated
    /\ cur.op = "EachSlice"
    /\ field = F("a", SliceV(<<IntV(0), IntV(1)>>))
    /\ Len(InvokedByCur) = 2
    /\ Len(InvokedByCur[1].errs.list) = 2
    /\ Len(InvokedByCur[2].errs.list) = 2
    /\ InvokedByCur[2].field = F("a[1]", IntV(1))
    /\ Len(out.errs.list) = 4

\* Whether the text s contains the text name.
Mentions(s, name) ==
    \E i \in 1..Len(s) : i + Len(name) - 1 <= Len(s) /\ SubSeq(s, i, i + Len(name) - 1) = name

\* C26: when the first error of the validator wrapped by Not is UNSUPPORTED,
\* Not returns an UNSUPPORTED error, and one that names Not, the validator
\* the caller invoked, not the wrapped validator that met the mismatch.
C26_NotNamesItself ==
    (/\ validated
     /\ cur.op = "Not"
     /\ cur.validators[1].op = "Nonzero"
     /\ Fails(1)
     /\ SubOut(1).errs.list[1].kind = ErrUnsupported) =>
        /\ HasKind(out.errs, ErrUnsupported)
        /\ \A i \in 1..Len(out.errs.list) :
               out.errs.list[i].kind = ErrUnsupported =>
                   /\ Mentions(out.errs.list[i].message, "Not")
                   /\ ~Mentions(out.errs.list[i].message, "Nonzero")

\* C27: Not decides on the first error of the wrapped validator alone: when
\* that error is INVALID, Not returns no errors, even when a later error of
\* the wrapped validator is UNSUPPORTED, as with Not(Any(a, b)) where a fails
\* with INVALID and b with UNSUPPORTED.
C27_NotFirstErrorDecides ==
    (/\ validated
     /\ cur.op = "Not"
     /\ Fails(1)
     /\ SubOut(1).errs.list[1].kind = ErrInvalid) => NoErrors(out.errs)

\* C28: a result of length zero means no violation, nil or allocated: All
\* goes on to its next sub-validator after every one that returned a result
\* of length zero, and Any returns no errors when one of its sub-validators
\* returned a result of length zero.
C28_EmptyMeansNoViolation ==
    validated =>
        /\ cur.op = "All" =>
               \A j \in 1..(NumSubs - 1) :
                   (\A i \in 1..j : NoErrors(SubOut(i).errs)) =>
                       \E k \in DOMAIN InvokedByCur : InvokedByCur[k].at = <<j + 1>>
        /\ cur.op = "Any" =>
               ((\E j \in 1..NumSubs : NoErrors(SubOut(j).errs)) => NoErrors(out.errs))

\* C29: EachSlice and EachMap hand the validator, for each element, a field
\* whose value is that element, whatever validator was passed, a Schema
\* included: every validator invoked under the path of an element is handed
\* the element.
C29_EachChecksTheElements ==
    (/\ validated
     /\ cur.op \in {"EachSlice", "EachMap"}
     /\ TypeOf(field.Value) = cur.T
     /\ ~out.panic) =>
        \A j \in 1..Len(field.Value.elems) : \A k \in DOMAIN InvokedByCur :
            InvokedByCur[k].field.Name =
                    ElemPath(field.Name, Segment(j), EntryName(InvokedByCur[k])) =>
                InvokedByCur[k].field.Value = field.Value.elems[j]

\* C30: Slice(f) on a slice of length n reads no element at an index n or
\* above and always returns its Errors, whatever list of validators f
\* returns, one longer than n included: it never fails at run time.
C30_SliceNeverPanics ==
    (validated /\ cur.op = "Slice" /\ TypeOf(field.Value) = cur.T) => ~out.panic

====
